---- MODULE Spec2Model ----
(***************************************************************************)
(* OPA Med Calculator (src/App.py): a Streamlit script.  Every widget      *)
(* change and every click on "Calculate Doses" re-executes the script from *)
(* the top with the widgets' current values.  The state below is the       *)
(* widgets' values plus what the last execution of the script left behind: *)
(* the effective profile, the messages it rendered, and the calls it made  *)
(* to calculate_dose.                                                      *)
(*                                                                         *)
(* Python floats are modelled as exact rationals [n, d] in lowest terms    *)
(* with d > 0; round(x, 2) is round-half-to-even on that rational.         *)
(* Text is a sequence of one-character strings, so that split, strip and   *)
(* float() are computed character by character.                            *)
(***************************************************************************)
EXTENDS Integers, Sequences, FiniteSets, TLC

\* ------------------------------------------------------------------ bounds

\* Largest number of lines typed into the weights text area.
MaxLines == 3

\* The same, while one input's first run is being remembered.
MaxProbeLines == 2

\* The count of later runs kept with a remembered run stops here.
MaxReruns == 2

\* ------------------------------------------------------- rational numbers

RECURSIVE Gcd(_, _)
Gcd(a, b) == IF b = 0 THEN a ELSE Gcd(b, a % b)

Abs(x) == IF x < 0 THEN -x ELSE x

Sign(x) == IF x < 0 THEN -1 ELSE 1

Reduce(n, d, g) == [n |-> Sign(d) * (n \div g), d |-> Sign(d) * (d \div g)]

\* The rational n/d (d # 0) in lowest terms with a positive denominator.
Rat(n, d) == Reduce(n, d, Gcd(Abs(n), Abs(d)))

Zero == [n |-> 0, d |-> 1]

Mul(a, b) == Rat(a.n * b.n, a.d * b.d)

Add(a, b) == Rat(a.n * b.d + b.n * a.d, a.d * b.d)

Neg(a) == [n |-> -a.n, d |-> a.d]

\* a / b for b # 0.
Div(a, b) == Rat(a.n * b.d, a.d * b.n)

Leq(a, b) == a.n * b.d <= b.n * a.d

Lt(a, b) == a.n * b.d < b.n * a.d

\* n/d (d > 0) to the nearest integer, a tie to the even one; q is the floor.
HalfEven(n, d, q) ==
    IF 2 * (n - q * d) > d \/ (2 * (n - q * d) = d /\ q % 2 = 1) THEN q + 1 ELSE q

\* round(x, 2): the multiple of 1/100 nearest to x, ties to the even multiple.
Round2(x) == Rat(HalfEven(100 * x.n, x.d, (100 * x.n) \div x.d), 100)

\* ------------------------------------------------------------------- text

Whitespace == {" ", "\t"}

DigitChars == <<"0", "1", "2", "3", "4", "5", "6", "7", "8", "9">>

IsDigit(c) == \E i \in 1..10 : DigitChars[i] = c

DigitVal(c) == (CHOOSE i \in 1..10 : DigitChars[i] = c) - 1

\* text.split('\n'): the pieces between newlines; the empty text is one empty piece.
RECURSIVE Split(_)
Split(text) ==
    IF \A k \in 1..Len(text) : text[k] # "\n"
    THEN <<text>>
    ELSE LET k == CHOOSE j \in 1..Len(text) :
                      /\ text[j] = "\n"
                      /\ \A i \in 1..(j - 1) : text[i] # "\n"
         IN  <<SubSeq(text, 1, k - 1)>> \o Split(SubSeq(text, k + 1, Len(text)))

\* w.strip(): w without its leading and trailing whitespace.
Strip(w) ==
    IF \A k \in 1..Len(w) : w[k] \in Whitespace
    THEN <<>>
    ELSE LET first == CHOOSE j \in 1..Len(w) :
                          /\ w[j] \notin Whitespace
                          /\ \A i \in 1..(j - 1) : w[i] \in Whitespace
             last  == CHOOSE j \in 1..Len(w) :
                          /\ w[j] \notin Whitespace
                          /\ \A i \in (j + 1)..Len(w) : w[i] \in Whitespace
         IN  SubSeq(w, first, last)

RECURSIVE Pow10(_)
Pow10(k) == IF k = 0 THEN 1 ELSE 10 * Pow10(k - 1)

RECURSIVE DigitsValue(_)
DigitsValue(ds) ==
    IF ds = <<>> THEN 0
    ELSE 10 * DigitsValue(SubSeq(ds, 1, Len(ds) - 1)) + DigitVal(ds[Len(ds)])

\* The digits and at most one point of an unsigned literal, or no number.
IsUnsigned(body) ==
    /\ \A k \in 1..Len(body) : IsDigit(body[k]) \/ body[k] = "."
    /\ Cardinality({k \in 1..Len(body) : body[k] = "."}) <= 1
    /\ \E k \in 1..Len(body) : IsDigit(body[k])

\* How many digits follow the point.
Scale(body) ==
    IF \A k \in 1..Len(body) : body[k] # "." THEN 0
    ELSE Len(body) - (CHOOSE k \in 1..Len(body) : body[k] = ".")

Unsigned(body) ==
    IF IsUnsigned(body)
    THEN [ok |-> TRUE, value |-> Rat(DigitsValue(SelectSeq(body, IsDigit)),
                                     Pow10(Scale(body)))]
    ELSE [ok |-> FALSE, value |-> Zero]

Negated(p) == [ok |-> p.ok, value |-> Neg(p.value)]

\* float(s) on the characters the model types (digits, sign, point, letters,
\* blanks): an optional sign, then digits with at most one point and at least
\* one digit.  ok is FALSE where float raises ValueError.
ParseFloat(s) ==
    IF Len(s) > 0 /\ s[1] = "-" THEN Negated(Unsigned(Tail(s)))
    ELSE IF Len(s) > 0 /\ s[1] = "+" THEN Unsigned(Tail(s))
    ELSE Unsigned(s)

\* --------------------------------------------------------------- constants

\* LBS_TO_KG = 0.453592
LBS_TO_KG == Rat(453592, 1000000)

Sentinel == "Select a Medication"

\* The literal the script binds DRUG_DATA to on every execution.
DrugTable ==
    [d \in {Sentinel, "Toltrazuril (Tolt)", "Panacur (Fenbendazole)",
            "Doxycycline (Pill)"} |->
        CASE d = Sentinel                 -> <<Zero, Zero, "mL">>
          [] d = "Toltrazuril (Tolt)"     -> <<Rat(33, 1), Rat(50, 1), "mL">>
          [] d = "Panacur (Fenbendazole)" -> <<Rat(50, 1), Rat(100, 1), "mL">>
          [] d = "Doxycycline (Pill)"     -> <<Rat(5, 1), Rat(50, 1), "Pill">>]

Units == {"mL", "Pill"}

\* ---------------------------------------------------------- calculate_dose

\* calculate_dose rounding pill doses to whole pills.
calculate_dose_whole_pills(weight_kg, dose_rate_mg_kg, concentration_mg_unit, unit_type) ==
    IF \/ Leq(concentration_mg_unit, Zero)
       \/ Leq(weight_kg, Zero)
       \/ Leq(dose_rate_mg_kg, Zero)
    THEN [dose |-> Zero, unit |-> "mL", raised |-> "none"]
    ELSE LET final_dose == Div(Mul(weight_kg, dose_rate_mg_kg), concentration_mg_unit)
         IN  [dose |-> IF unit_type = "Pill"
                       THEN Mul(Round2(Mul(final_dose, Rat(1, 100))), Rat(100, 1))
                       ELSE Round2(final_dose),
              unit |-> unit_type, raised |-> "none"]

\* calculate_dose guarding with < where the code has <=.
calculate_dose_strict_guard(weight_kg, dose_rate_mg_kg, concentration_mg_unit, unit_type) ==
    IF \/ Lt(concentration_mg_unit, Zero)
       \/ Lt(weight_kg, Zero)
       \/ Lt(dose_rate_mg_kg, Zero)
    THEN [dose |-> Zero, unit |-> "mL", raised |-> "none"]
    ELSE IF concentration_mg_unit.n = 0
    THEN [dose |-> Zero, unit |-> unit_type, raised |-> "ZeroDivisionError"]
    ELSE [dose |-> Round2(Div(Mul(weight_kg, dose_rate_mg_kg), concentration_mg_unit)),
          unit |-> unit_type, raised |-> "none"]

\* The value of one call: the returned pair, or the exception the division
\* raises when its divisor is zero.
calculate_dose(weight_kg, dose_rate_mg_kg, concentration_mg_unit, unit_type) ==
    IF \/ Leq(concentration_mg_unit, Zero)
       \/ Leq(weight_kg, Zero)
       \/ Leq(dose_rate_mg_kg, Zero)
    THEN [dose |-> Zero, unit |-> "mL", raised |-> "none"]
    ELSE LET total_mg_needed == Mul(weight_kg, dose_rate_mg_kg)
         IN  IF concentration_mg_unit.n = 0
             THEN [dose |-> Zero, unit |-> unit_type, raised |-> "ZeroDivisionError"]
             ELSE LET final_dose == Div(total_mg_needed, concentration_mg_unit)
                      rounded_dose == IF unit_type = "Pill"
                                      THEN Round2(final_dose)
                                      ELSE Round2(final_dose)
                  IN  [dose |-> rounded_dose, unit |-> unit_type, raised |-> "none"]

\* ------------------------------------------------------------------- state

VARIABLES
    custom_dose_rate,      \* sidebar number_input, >= 0
    custom_concentration,  \* sidebar number_input, >= 0
    custom_unit_type,      \* sidebar selectbox
    selected_drug,         \* selectbox over the keys of DRUG_DATA
    weights_input,         \* text area, a sequence of characters
    DRUG_DATA,             \* the lookup table as the last execution left it
    button,                \* whether the last execution was a click on Calculate
    use_custom,
    dose_rate,
    concentration,
    unit_type,
    drug_name_display,
    banner,                \* the message rendered under the medication selectbox
    messages,              \* what the Calculate block rendered, in order
    total_dose,            \* the accumulator after the loop, Undefined if never bound
    calls,                 \* the calls of calculate_dose made, in order
    earlier                \* history: an input and the first run observed on it

vars == <<custom_dose_rate, custom_concentration, custom_unit_type, selected_drug,
          weights_input, DRUG_DATA, button, use_custom, dose_rate, concentration,
          unit_type, drug_name_display, banner, messages, total_dose, calls, earlier>>

\* A name the execution never bound.
Undefined == [n |-> 0, d |-> 0]

Msg(kind) ==
    [kind |-> kind, animal |-> 0, weight_str |-> <<>>, weight_lbs |-> Zero,
     dose_amount |-> Zero, unit |-> ""]

\* ------------------------------------------------------------- the script

\* use_custom with `or` where the code has `and`.
UseCustomEither(cdr, cc) == Lt(Zero, cdr) \/ Lt(Zero, cc)

\* use_custom = custom_dose_rate > 0 and custom_concentration > 0
UseCustom(cdr, cc) == Lt(Zero, cdr) /\ Lt(Zero, cc)

\* Lines 87-112: which data the run uses.
Profile(cdr, cc, cu, sel, table) ==
    IF UseCustom(cdr, cc)
    THEN [use_custom |-> TRUE, dose_rate |-> cdr, concentration |-> cc,
          unit_type |-> cu, drug_name_display |-> "Custom Medication",
          banner |-> "warning_custom"]
    ELSE IF sel = Sentinel
    THEN [use_custom |-> FALSE, dose_rate |-> Zero, concentration |-> Zero,
          unit_type |-> "mL", drug_name_display |-> "",
          banner |-> "warning_select"]
    ELSE [use_custom |-> FALSE, dose_rate |-> table[sel][1],
          concentration |-> table[sel][2], unit_type |-> table[sel][3],
          drug_name_display |-> sel, banner |-> "info_drug_data"]

\* The filter `if w` where the code has `if w.strip()`.
KeepLineNonEmpty(w) == w # <<>>

KeepLine(w) == Strip(w) # <<>>

\* raw_weights = [w.strip() for w in weights_input.split('\n') if w.strip()]
RawWeights(text) ==
    LET kept == SelectSeq(Split(text), KeepLine)
    IN  [k \in 1..Len(kept) |-> Strip(kept[k])]

\* The accumulator left as the previous run bound it.
CarriedTotal(previous) == IF previous = Undefined THEN Zero ELSE previous

\* total_dose = 0.0
FreshTotal(previous) == Zero

\* total_dose = dose_amount, where the code has +=.
AccumulateOverwrites(total, dose_amount) == dose_amount

\* total_dose += dose_amount
Accumulate(total, dose_amount) == Add(total, dose_amount)

\* A ValueError that nothing catches: the script ends at the line.
OnParseErrorAborts(acc, weight_str) ==
    [acc EXCEPT !.messages = Append(@, Msg("exception")), !.aborted = TRUE]

\* except ValueError: st.error(...)
OnParseError(acc, weight_str) ==
    [acc EXCEPT !.messages =
        Append(@, [Msg("error_parse") EXCEPT !.weight_str = weight_str])]

\* The precondition without its sentinel test.
PreconditionZeroOnly(prof, sel) ==
    IF prof.dose_rate = Zero \/ prof.concentration = Zero THEN "error_zero"
    ELSE "ok"

\* Lines 127-131: which branch of the Calculate block is taken.
Precondition(prof, sel) ==
    IF ~prof.use_custom /\ sel = Sentinel THEN "error_select"
    ELSE IF prof.dose_rate = Zero \/ prof.concentration = Zero THEN "error_zero"
    ELSE "ok"

\* The call the loop makes for one weight, with what it returns.
Call(weight_kg, dr, conc, ut) ==
    [weight_kg |-> weight_kg, dose_rate |-> dr, concentration |-> conc,
     unit_type |-> ut, result |-> calculate_dose(weight_kg, dr, conc, ut)]

\* Lines 153-159 after a call that returned; the script ends at a call that raised.
OnResult(acc, i, weight_str, weight_lbs, call) ==
    IF call.result.raised # "none"
    THEN [acc EXCEPT !.calls = Append(@, call),
                     !.messages = Append(@, Msg("exception")),
                     !.aborted = TRUE]
    ELSE [total_dose |-> Accumulate(acc.total_dose, call.result.dose),
          messages |-> Append(acc.messages,
              [Msg("success") EXCEPT !.animal = i,
                                     !.weight_str = weight_str,
                                     !.weight_lbs = weight_lbs,
                                     !.dose_amount = call.result.dose,
                                     !.unit = call.result.unit]),
          calls |-> Append(acc.calls, call),
          aborted |-> FALSE]

\* Lines 143-162 once float(weight_str) has returned or raised.
OnParse(acc, i, weight_str, parsed, dr, conc, ut) ==
    IF ~parsed.ok
    THEN OnParseError(acc, weight_str)
    ELSE OnResult(acc, i, weight_str, parsed.value,
                  Call(Mul(parsed.value, LBS_TO_KG), dr, conc, ut))

\* One iteration of the loop over raw_weights on the accumulated
\* [total_dose, messages, calls, aborted].
LoopBody(acc, i, weight_str, dr, conc, ut) ==
    OnParse(acc, i, weight_str, ParseFloat(weight_str), dr, conc, ut)

\* for i, weight_str in enumerate(raw_weights): ...  (animal numbers are i + 1)
RECURSIVE Loop(_, _, _, _, _, _)
Loop(raw, i, acc, dr, conc, ut) ==
    IF i > Len(raw) \/ acc.aborted THEN acc
    ELSE Loop(raw, i + 1, LoopBody(acc, i, raw[i], dr, conc, ut), dr, conc, ut)

\* Lines 164-171: the litter total, unless an exception ended the script.
TotalLine(acc, raw, ut) ==
    IF acc.aborted \/ raw = <<>> THEN acc
    ELSE [acc EXCEPT !.messages =
             Append(@, [Msg("total") EXCEPT !.dose_amount = Round2(acc.total_dose),
                                            !.unit = ut])]

\* What an execution that skips the Calculate block leaves behind.
NoOutput ==
    [total_dose |-> Undefined, messages |-> <<>>, calls |-> <<>>, aborted |-> FALSE]

\* Lines 134-171: the block once raw_weights is known.
OnWeights(prof, raw_weights, previous) ==
    IF raw_weights = <<>>
    THEN [NoOutput EXCEPT !.messages = <<Msg("warning_weights")>>]
    ELSE TotalLine(Loop(raw_weights, 1,
                        [NoOutput EXCEPT !.total_dose = FreshTotal(previous),
                                         !.messages = <<Msg("header")>>],
                        prof.dose_rate, prof.concentration, prof.unit_type),
                   raw_weights, prof.unit_type)

\* Lines 127-131 on the branch the precondition takes.
OnPrecondition(branch, prof, text, previous) ==
    IF branch # "ok"
    THEN [NoOutput EXCEPT !.messages = <<Msg(branch)>>]
    ELSE OnWeights(prof, RawWeights(text), previous)

\* Lines 125-171: the body of `if st.button("Calculate Doses")`.
CalculateBlock(prof, sel, text, previous) ==
    OnPrecondition(Precondition(prof, sel), prof, text, previous)

Inputs(cdr, cc, cu, sel, text) == <<cdr, cc, cu, sel, text>>

NoRun == [done |-> FALSE, messages |-> <<>>, total_dose |-> Undefined, reruns |-> 0]

\* The history after a run: the first run on the remembered input is kept,
\* later runs are counted.
Remember(e, inputs, out) ==
    IF e.run.done
    THEN [e EXCEPT !.run.reruns = IF @ < MaxReruns THEN @ + 1 ELSE @]
    ELSE IF e.inputs = inputs
    THEN [e EXCEPT !.run = [done |-> TRUE, messages |-> out.messages,
                            total_dose |-> out.total_dose, reruns |-> 0]]
    ELSE e

\* What one execution of the script leaves behind: the widgets' values, the
\* profile p of lines 87-112, and the outcome o of the Calculate block (pressed
\* is what st.button returned).
Execute(cdr, cc, cu, sel, text, pressed, p, o) ==
    \E prof \in {p} : \E out \in {o} :
        /\ custom_dose_rate' = cdr
        /\ custom_concentration' = cc
        /\ custom_unit_type' = cu
        /\ selected_drug' = sel
        /\ weights_input' = text
        /\ DRUG_DATA' = DrugTable
        /\ button' = pressed
        /\ use_custom' = prof.use_custom
        /\ dose_rate' = prof.dose_rate
        /\ concentration' = prof.concentration
        /\ unit_type' = prof.unit_type
        /\ drug_name_display' = prof.drug_name_display
        /\ banner' = prof.banner
        /\ messages' = out.messages
        /\ total_dose' = out.total_dose
        /\ calls' = out.calls
        /\ earlier' = IF pressed
                      THEN Remember(earlier, Inputs(cdr, cc, cu, sel, text), out)
                      ELSE earlier

\* The script executed because a widget changed: the button reads False.
Rerun(cdr, cc, cu, sel, text) ==
    Execute(cdr, cc, cu, sel, text, FALSE,
            Profile(cdr, cc, cu, sel, DrugTable), NoOutput)

\* ------------------------------------------------------------- the inputs

\* Values typed into the two sidebar number inputs (min_value = 0.0).
CustomRates == {Zero, Rat(5, 2)}

CustomConcentrations == {Zero, Rat(25, 1)}

\* Lines typed into the weights text area: "2.5", "abc", " ", " 10 ", "-3".
Lines ==
    { <<"2", ".", "5">>, <<"a", "b", "c">>, <<" ">>, <<" ", "1", "0", " ">>,
      <<"-", "3">> }

NoProbe == [inputs |-> Inputs(Zero, Zero, "mL", "", <<>>), run |-> NoRun]

\* Inputs whose first run is remembered, to compare later runs with it.
ProbeInputs ==
    { Inputs(Zero, Zero, "mL", "Doxycycline (Pill)",
             <<"2", ".", "5">> \o <<"\n">> \o <<"a", "b", "c">>),
      Inputs(Rat(5, 2), Rat(25, 1), "Pill", Sentinel, <<" ", "1", "0", " ">>),
      Inputs(Zero, Rat(25, 1), "mL", Sentinel, <<"2", ".", "5">>) }

\* Arguments of direct calls of calculate_dose.
DoseWeights == {Rat(-3, 1), Zero, Rat(1, 8), Rat(56699, 50000), Rat(56699, 12500)}

DoseRates == {Rat(-1, 1), Zero, Rat(5, 2), Rat(33, 1)}

DoseConcentrations == {Rat(-50, 1), Zero, Rat(25, 1), Rat(50, 1)}

\* ----------------------------------------------------------------- actions

InitWith(e) ==
    /\ custom_dose_rate = Zero
    /\ custom_concentration = Zero
    /\ custom_unit_type = "mL"
    /\ selected_drug = Sentinel
    /\ weights_input = <<>>
    /\ DRUG_DATA = DrugTable
    /\ button = FALSE
    /\ use_custom = FALSE
    /\ dose_rate = Zero
    /\ concentration = Zero
    /\ unit_type = "mL"
    /\ drug_name_display = ""
    /\ banner = "warning_select"
    /\ messages = <<>>
    /\ total_dose = Undefined
    /\ calls = <<>>
    /\ earlier = e

Init == InitWith(NoProbe)

InitRuns == \E p \in ProbeInputs : InitWith([inputs |-> p, run |-> NoRun])

ChangeCustomDoseRate ==
    \E v \in CustomRates \ {custom_dose_rate} :
        Rerun(v, custom_concentration, custom_unit_type, selected_drug,
              weights_input)

ChangeCustomConcentration ==
    \E v \in CustomConcentrations \ {custom_concentration} :
        Rerun(custom_dose_rate, v, custom_unit_type, selected_drug,
              weights_input)

ChangeCustomUnit ==
    \E u \in Units \ {custom_unit_type} :
        Rerun(custom_dose_rate, custom_concentration, u, selected_drug,
              weights_input)

SelectDrug ==
    \E d \in (DOMAIN DRUG_DATA) \ {selected_drug} :
        Rerun(custom_dose_rate, custom_concentration, custom_unit_type, d,
              weights_input)

\* The text area is replaced by one line.
WeightsType ==
    \E l \in Lines \ {weights_input} :
        Rerun(custom_dose_rate, custom_concentration, custom_unit_type,
              selected_drug, l)

\* A further line is typed under the ones already there.
WeightsAppend ==
    /\ Len(Split(weights_input)) <
           (IF earlier.inputs = NoProbe.inputs THEN MaxLines ELSE MaxProbeLines)
    /\ \E l \in Lines :
        Rerun(custom_dose_rate, custom_concentration, custom_unit_type,
              selected_drug, weights_input \o <<"\n">> \o l)

\* The script executed because Calculate Doses was clicked.
ClickCalculate ==
    \E sel \in {selected_drug} \cap DOMAIN DRUG_DATA :
        Execute(custom_dose_rate, custom_concentration, custom_unit_type,
                sel, weights_input, TRUE,
                Profile(custom_dose_rate, custom_concentration, custom_unit_type,
                        sel, DrugTable),
                CalculateBlock(Profile(custom_dose_rate, custom_concentration,
                                       custom_unit_type, sel, DrugTable),
                               sel, weights_input, total_dose))

\* calculate_dose called on its own, on any numbers.
DirectCall ==
    /\ \E w \in DoseWeights, r \in DoseRates, c \in DoseConcentrations, u \in Units :
           calls' = <<[weight_kg |-> w, dose_rate |-> r, concentration |-> c,
                       unit_type |-> u, result |-> calculate_dose(w, r, c, u)]>>
    /\ UNCHANGED <<custom_dose_rate, custom_concentration, custom_unit_type,
                   selected_drug, weights_input, DRUG_DATA, button, use_custom,
                   dose_rate, concentration, unit_type, drug_name_display, banner,
                   messages, total_dose, earlier>>

Next ==
    \/ ChangeCustomDoseRate
    \/ ChangeCustomConcentration
    \/ ChangeCustomUnit
    \/ SelectDrug
    \/ WeightsType
    \/ WeightsAppend
    \/ ClickCalculate

NextDose == DirectCall

\* The form.
Spec == Init /\ [][Next]_vars

\* The form, with one input's first run remembered.
SpecRuns == InitRuns /\ [][Next]_vars

\* calculate_dose alone.
SpecDose == Init /\ [][NextDose]_vars

\* ------------------------------------------------------------- properties

Indices(kind) == {k \in 1..Len(messages) : messages[k].kind = kind}

Positive(x) == x.n > 0 /\ x.d > 0

\* A line with nothing but blanks and tabs in it.
Blank(w) == \A k \in 1..Len(w) : w[k] = " " \/ w[k] = "\t"

NonBlankLines == SelectSeq(Split(weights_input), LAMBDA w : ~Blank(w))

RECURSIVE SumDoses(_)
SumDoses(ms) ==
    IF ms = <<>> THEN Zero
    ELSE Add(IF Head(ms).kind = "success" THEN Head(ms).dose_amount ELSE Zero,
             SumDoses(Tail(ms)))

\* The run got past both precondition tests and found a weight to work on.
ReachedResults == button /\ Indices("header") # {}

OverrideActive == custom_dose_rate.n > 0 /\ custom_concentration.n > 0

CurrentInputs ==
    Inputs(custom_dose_rate, custom_concentration, custom_unit_type,
           selected_drug, weights_input)

\* C1: every per-animal result of a run carries the run's unit, the unit of
\* the total line, also for zero or negative weights under a Pill profile.
C1_AllResultsShareUnit ==
    \A k \in Indices("success") :
        /\ messages[k].unit = unit_type
        /\ \A j \in Indices("success") : messages[j].unit = messages[k].unit
        /\ \A t \in Indices("total") : messages[t].unit = messages[k].unit

\* C2: for a positive weight line under a positive rate and concentration the
\* displayed dose is the multiple of 0.01 nearest to
\* weightLbs * 0.453592 * rate / concentration (ties to even), for mL and for
\* Pill alike, and it carries the requested unit.
C2_DoseIsRoundedFormula ==
    \A k \in Indices("success") :
        (Positive(messages[k].weight_lbs) /\ Positive(dose_rate) /\ Positive(concentration))
        => LET exact == Div(Mul(Mul(messages[k].weight_lbs, Rat(453592, 1000000)),
                                dose_rate), concentration)
               shown == messages[k].dose_amount
               off   == Mul(Add(exact, Neg(shown)), Rat(200, 1))
               cents == Mul(shown, Rat(100, 1))
           IN  /\ cents.d = 1
               /\ Leq(off, Rat(1, 1)) /\ Leq(Rat(-1, 1), off)
               /\ (Abs(off.n) = 1 /\ off.d = 1) => cents.n % 2 = 0
               /\ messages[k].unit = unit_type

C2_Witness ==
    /\ button
    /\ unit_type = "Pill"
    /\ \E k \in Indices("success") :
           /\ Positive(messages[k].weight_lbs)
           /\ Positive(messages[k].dose_amount)
           /\ messages[k].unit = "Pill"
           /\ messages[k].dose_amount #
                  Div(Mul(Mul(messages[k].weight_lbs, LBS_TO_KG), dose_rate),
                      concentration)
    /\ \E k \in Indices("success") : messages[k].dose_amount.d = 100

\* C3: a call of calculate_dose with a concentration, weight or dose rate
\* that is zero or negative returns (0.0, "mL") whatever unit was asked for,
\* and raises nothing.
C3_GuardReturnsZeroMl ==
    \A k \in 1..Len(calls) :
        (\/ calls[k].concentration.n <= 0
         \/ calls[k].weight_kg.n <= 0
         \/ calls[k].dose_rate.n <= 0)
        => /\ calls[k].result.dose = Zero
           /\ calls[k].result.unit = "mL"
           /\ calls[k].result.raised = "none"

C3_Witness ==
    \E k \in 1..Len(calls) :
        /\ calls[k].unit_type = "Pill"
        /\ calls[k].concentration.n = 0
        /\ calls[k].dose_rate.n > 0
        /\ calls[k].weight_kg.n > 0
        /\ calls[k].result = [dose |-> Zero, unit |-> "mL", raised |-> "none"]

\* C4: a run that reaches the results stage ends with exactly one total
\* line; it is the last message, and its amount is round(S, 2) for S the sum
\* of the displayed (already rounded) doses, one for each line that parsed.
C4_TotalIsRoundedSumOfRounded ==
    ReachedResults
    => /\ Indices("total") = {Len(messages)}
       /\ messages[Len(messages)].dose_amount = Round2(SumDoses(messages))
       /\ \A k \in Indices("success") : 100 % messages[k].dose_amount.d = 0
       /\ Cardinality(Indices("success")) =
              Len(SelectSeq(NonBlankLines, LAMBDA w : ParseFloat(Strip(w)).ok))

C4_Witness ==
    /\ ReachedResults
    /\ Indices("error_parse") # {}
    /\ \E j, k \in Indices("success") :
           /\ j # k
           /\ Positive(messages[j].dose_amount)
           /\ Positive(messages[k].dose_amount)
    /\ messages[Len(messages)].kind = "total"
    /\ Positive(messages[Len(messages)].dose_amount)

\* C5: a line that is no number gives an error for that line and nothing
\* else: the messages between the header and the total are, in input order,
\* one per non-blank line, an error for a line that does not parse and a
\* result for a line that does, and the total follows.
C5_ParseErrorIsLocal ==
    ReachedResults
    => /\ Len(messages) = Len(NonBlankLines) + 2
       /\ \A j \in 1..Len(NonBlankLines) :
              LET w == Strip(NonBlankLines[j])
                  m == messages[j + 1]
              IN  IF ParseFloat(w).ok
                  THEN /\ m.kind = "success"
                       /\ m.animal = j
                       /\ m.weight_lbs = ParseFloat(w).value
                  ELSE /\ m.kind = "error_parse"
                       /\ m.weight_str = w
       /\ messages[Len(messages)].kind = "total"

C5_Witness ==
    /\ ReachedResults
    /\ Len(messages) = 5
    /\ messages[2].kind = "success"
    /\ messages[3].kind = "error_parse"
    /\ messages[4].kind = "success"
    /\ Positive(messages[4].dose_amount)
    /\ messages[5].kind = "total"

\* C6: Calculate with the sentinel selected and no active override renders
\* the request for a valid medication and nothing else: no result, no total,
\* no call of calculate_dose, whatever the weights are.
C6_SentinelRunIsRefused ==
    (button /\ selected_drug = Sentinel /\ ~OverrideActive)
    => /\ messages = <<Msg("error_select")>>
       /\ calls = <<>>
       /\ total_dose = Undefined

C6_Witness ==
    /\ button
    /\ selected_drug = Sentinel
    /\ ~OverrideActive
    /\ Positive(custom_dose_rate)
    /\ \E j \in 1..Len(NonBlankLines) : Positive(ParseFloat(Strip(NonBlankLines[j])).value)
    /\ messages = <<Msg("error_select")>>

\* C7: the override is active exactly when both custom numbers are positive;
\* an active override supplies rate, concentration and unit to every call of
\* the run whatever is selected; otherwise the custom fields play no part:
\* the selected entry supplies them, or the sentinel blocks the run.
C7_OverridePrecedence ==
    /\ use_custom <=> OverrideActive
    /\ use_custom =>
           /\ <<dose_rate, concentration, unit_type>> =
                  <<custom_dose_rate, custom_concentration, custom_unit_type>>
           /\ \A k \in 1..Len(calls) :
                  /\ calls[k].dose_rate = custom_dose_rate
                  /\ calls[k].concentration = custom_concentration
                  /\ calls[k].unit_type = custom_unit_type
    /\ (~use_custom /\ selected_drug # Sentinel) =>
           /\ <<dose_rate, concentration, unit_type>> = DRUG_DATA[selected_drug]
           /\ \A k \in 1..Len(calls) :
                  <<calls[k].dose_rate, calls[k].concentration, calls[k].unit_type>>
                      = DRUG_DATA[selected_drug]
    /\ (~use_custom /\ selected_drug = Sentinel) =>
           /\ calls = <<>>
           /\ button => messages = <<Msg("error_select")>>

C7_Witness ==
    /\ button
    /\ use_custom
    /\ selected_drug = "Toltrazuril (Tolt)"
    /\ custom_unit_type = "Pill"
    /\ \E k \in 1..Len(calls) :
           /\ calls[k].unit_type = "Pill"
           /\ calls[k].dose_rate = custom_dose_rate
           /\ calls[k].result.unit = "Pill"

\* C8: under a valid profile a weight list with no non-blank line gives the
\* warning alone, no result and no total; and blank lines among others give
\* no message at all: there is one result or parse error per non-blank line.
C8_BlankLinesGiveNothing ==
    (button /\ (OverrideActive \/ selected_drug # Sentinel))
    => /\ Len(NonBlankLines) = 0 =>
              /\ messages = <<Msg("warning_weights")>>
              /\ calls = <<>>
       /\ Cardinality(Indices("success") \cup Indices("error_parse"))
              = Len(NonBlankLines)
       /\ \A k \in Indices("error_parse") : ~Blank(messages[k].weight_str)

C8_Witness ==
    /\ button
    /\ selected_drug # Sentinel
    /\ Len(weights_input) > 1
    /\ Len(NonBlankLines) = 0
    /\ messages = <<Msg("warning_weights")>>

\* C9: a run is a function of its inputs: whatever ran before, a run on the
\* remembered input renders what the first run on it rendered and leaves the
\* same accumulator; the accumulator of a run is the sum of that run's doses
\* alone; and the catalog stays what the script's literal says.
C9_RunIsFunctionOfInputs ==
    /\ (button /\ earlier.run.done /\ earlier.inputs = CurrentInputs)
       => /\ messages = earlier.run.messages
          /\ total_dose = earlier.run.total_dose
    /\ (button /\ total_dose # Undefined) => total_dose = SumDoses(messages)
    /\ DRUG_DATA = DrugTable

C9_Witness ==
    /\ button
    /\ earlier.run.done
    /\ earlier.run.reruns >= 2
    /\ earlier.inputs = CurrentInputs
    /\ Positive(total_dose)
    /\ Indices("success") # {}

\* C10: whenever the sentinel test lets a run through (override active, or a
\* catalog entry selected), rate and concentration are both positive, so the
\* "cannot be zero" error is never rendered and the loop never calls
\* calculate_dose with a rate or concentration that is not positive.
C10_ZeroBranchIsDead ==
    /\ (use_custom \/ selected_drug # Sentinel)
       => Positive(dose_rate) /\ Positive(concentration)
    /\ Indices("error_zero") = {}
    /\ \A k \in 1..Len(calls) :
           Positive(calls[k].dose_rate) /\ Positive(calls[k].concentration)

C10_Witness ==
    /\ button
    /\ ~use_custom
    /\ selected_drug # Sentinel
    /\ Positive(custom_dose_rate)
    /\ calls # <<>>

====
